---- MODULE Spec2Model ----
(***************************************************************************)
(* Model of the avito-ads-parser pipeline stages:                          *)
(*   - src/src/enricher.py : enrich_all_ads / enrich_batch (batched HTTP    *)
(*     client loop with retry and backoff)                                  *)
(*   - src/src/analyzer.py : find_missing_coverage /                        *)
(*     generate_coverage_report (set operations over two tables)            *)
(*   - src/src/parser.py : parse_html_file / parse_html_files (listing      *)
(*     elements of saved pages turned into ad records)                      *)
(***************************************************************************)
EXTENDS Integers, Sequences, FiniteSets, TLC

\* ---------------------------------------------------------------- bounds
MaxAds == 3
MaxBatchSize == 2
ExtraItems == 1
MaxCatalogRows == 3
MaxEnrichedRows == 2
MaxElems == 2
MaxFiles == 3

\* ------------------------------------------------------ program constants
\* enrich_batch(retry=3); the sleeps of the code, in milliseconds
Retry == 3
RateLimitDelayMs == 500
ServerErrorWaitMs == 1000
TimeoutWaitMs == 1000

VARIABLES
    \* ---- enricher: inputs of enrich_all_ads
    ads, batch_size,
    \* ---- enricher: control state
    pc, i, batch, titles, attempt, inflight, sleeping,
    \* ---- enricher: data
    stats, enriched, results, exc,
    \* ---- enricher: bookkeeping of what happened (not program state)
    requests, batchLog, stats0, results0, requests0, batchesDone,
    retryables, authAt, lastBody, outcomes, delays,
    \* ---- analyzer: the two input tables and the outputs
    enriched_df, output_df, missing_ret, missing_file, report,
    \* ---- analyzer: the order the build's sort gives to equal keys
    tie_order,
    \* ---- parser: the files, the loop position, the records, the exception
    file_paths, parser_pc, file_index, all_ads, parser_exc

enricherVars == <<ads, batch_size, pc, i, batch, titles, attempt, inflight,
                  sleeping, stats, enriched, results, exc,
                  requests, batchLog, stats0, results0, requests0,
                  batchesDone, retryables, authAt, lastBody, outcomes,
                  delays>>
analyzerVars == <<enriched_df, output_df, missing_ret, missing_file, report,
                  tie_order>>
parserVars == <<file_paths, parser_pc, file_index, all_ads, parser_exc>>
vars == <<enricherVars, analyzerVars, parserVars>>

\* ------------------------------------------------------------- helpers
Min(a, b) == IF a < b THEN a ELSE b

CeilDiv(n, b) == (n + b - 1) \div b

\* 2 * k instead of 2 ** k
Pow2_Double(k) == 2 * k

Pow2(k) == IF k = 0 THEN 1
           ELSE IF k = 1 THEN 2
           ELSE IF k = 2 THEN 4
           ELSE IF k = 3 THEN 8
           ELSE 16

\* ads[i : i + batch_size + 1]: one record too many
Slice_OneMore(s, from, size) ==
    [j \in 1..(Min(from + size + 1, Len(s)) - Min(from, Len(s))) |-> s[from + j]]

\* ads[i : i + batch_size] with a 0-based offset i
Slice(s, from, size) ==
    [j \in 1..(Min(from + size, Len(s)) - Min(from, Len(s))) |-> s[from + j]]

\* [a["title"] for a in reversed(batch)]
TitlesOf_Reversed(b) == [j \in 1..Len(b) |-> b[Len(b) + 1 - j].title]

\* [a["title"] for a in batch]
TitlesOf(b) == [j \in 1..Len(b) |-> b[j].title]

\* ------------------------------------------------------------ the inputs
\* An ad is a dict with a unique ad_id; the second one already carries a
\* "marka" field, the others do not.
AdAt(j) == IF j = 2
           THEN [ad_id |-> j, title |-> "t2", marka |-> "old"]
           ELSE [ad_id |-> j, title |-> "t1"]

AdLists == { [j \in 1..n |-> AdAt(j)] : n \in 0..MaxAds }

\* A classification object of the service.  isMap = FALSE stands for a JSON
\* value that is not an object (a number, a string, null).
ClassObjs == { [isMap |-> TRUE,  fields |-> [title |-> "T", marka |-> "jcb"]],
               [isMap |-> FALSE, fields |-> [json |-> "scalar"]] }

\* The processed_data lists the service may answer a batch of m titles with:
\* k items, k possibly larger than m; item j carries its position.
Tagged(obj, j) == IF obj.isMap
                  THEN [obj EXCEPT !.fields = [f \in DOMAIN obj.fields \cup {"pos"} |->
                                IF f = "pos" THEN j ELSE obj.fields[f]]]
                  ELSE obj

ProcessedLists(m) ==
    { [j \in 1..k |-> Tagged(o, j)] : k \in 0..(m + ExtraItems), o \in ClassObjs }

\* EnrichmentStats()
NewStats == [total_sent |-> 0, total_success |-> 0, total_failed |-> 0,
             rate_limit_hits |-> 0, timeout_errors |-> 0, other_errors |-> 0,
             retry_count |-> 0]


\* {**b, **a}: the original record's values win
Merge_OriginalWins(a, b) == [f \in (DOMAIN a) \cup (DOMAIN b) |->
                               IF f \in DOMAIN a THEN a[f] ELSE b[f]]

\* {**a, **b}: every key of b with b's value, every other key of a with a's
Merge(a, b) == [f \in (DOMAIN a) \cup (DOMAIN b) |->
                   IF f \in DOMAIN b THEN b[f] ELSE a[f]]

Bump(st, field, by) == [st EXCEPT ![field] = @ + by]

\* The request body: {"source": "1c", "data": [{"title": t, "day": ...}]}
Payload(ts) == [source |-> "1c",
                data |-> [j \in 1..Len(ts) |-> [title |-> ts[j], day |-> "today"]]]

\* the number of attempts so far that were answered 429, that timed out,
\* and that made enrich_batch give the batch up
NoOutcomes == [rate_limited |-> 0, timed_out |-> 0, abandoned |-> 0]

\* --------------------------------------------------------------- enricher
EnricherIdle ==
    /\ ads = <<>> /\ batch_size = 1 /\ pc = "idle" /\ i = 0
    /\ batch = <<>> /\ titles = <<>> /\ attempt = 0 /\ inflight = <<>>
    /\ sleeping = 0 /\ stats = NewStats /\ enriched = <<>> /\ results = <<>>
    /\ exc = "none" /\ requests = 0 /\ batchLog = <<>> /\ stats0 = NewStats
    /\ results0 = 0 /\ requests0 = 0 /\ batchesDone = 0
    /\ retryables = 0 /\ authAt = 0 /\ lastBody = <<>>
    /\ outcomes = NoOutcomes /\ delays = 0

AnalyzerIdle ==
    /\ enriched_df = <<>> /\ output_df = <<>>
    /\ missing_ret = [called |-> FALSE]
    /\ missing_file = [exists |-> FALSE]
    /\ report = [called |-> FALSE]
    /\ tie_order = <<>>

ParserIdle ==
    /\ file_paths = <<>> /\ parser_pc = "idle" /\ file_index = 0
    /\ all_ads = <<>> /\ parser_exc = "none"

\* enrich_all_ads is entered: stats = EnrichmentStats(), results = []
Init ==
    /\ ads \in AdLists
    /\ batch_size \in 1..MaxBatchSize
    /\ pc = "loop" /\ i = 0
    /\ batch = <<>> /\ titles = <<>> /\ attempt = 0 /\ inflight = <<>>
    /\ sleeping = 0 /\ stats = NewStats /\ enriched = <<>> /\ results = <<>>
    /\ exc = "none" /\ requests = 0 /\ batchLog = <<>> /\ stats0 = NewStats
    /\ results0 = 0 /\ requests0 = 0 /\ batchesDone = 0
    /\ retryables = 0 /\ authAt = 0 /\ lastBody = <<>>
    /\ outcomes = NoOutcomes /\ delays = 0
    /\ AnalyzerIdle
    /\ ParserIdle

\* for i in range(0, len(ads), batch_size): batch = ..., titles = ...,
\* and the entry of enrich_batch (payload built, attempt loop not yet entered)
BatchStart ==
    /\ UNCHANGED <<analyzerVars, parserVars>>
    /\ pc = "loop" /\ i < Len(ads)
    /\ batch' = Slice(ads, i, batch_size)
    /\ titles' = TitlesOf(batch')
    /\ attempt' = 0
    /\ enriched' = <<>>
    /\ batchLog' = <<>> /\ stats0' = stats /\ results0' = Len(results)
    /\ requests0' = requests
    /\ pc' = "attempt"
    /\ UNCHANGED <<ads, batch_size, i, inflight, sleeping, stats, results, exc,
                   requests, batchesDone, retryables, authAt, lastBody, outcomes,
                   delays>>

\* the loop is over: return results, stats
Return ==
    /\ UNCHANGED <<analyzerVars, parserVars>>
    /\ pc = "loop" /\ i >= Len(ads)
    /\ pc' = "done"
    /\ UNCHANGED <<ads, batch_size, i, batch, titles, attempt, inflight, sleeping,
                   stats, enriched, results, exc, requests, batchLog, stats0,
                   results0, requests0, batchesDone, retryables, authAt, lastBody, outcomes,
                   delays>>

\* for attempt in range(retry): stats.total_sent += len(titles); client.post
Send ==
    /\ UNCHANGED <<analyzerVars, parserVars>>
    /\ pc = "attempt" /\ attempt < Retry
    /\ stats' = Bump(stats, "total_sent", Len(titles))
    /\ inflight' = Append(inflight, Payload(titles))
    /\ requests' = requests + 1
    /\ pc' = "await"
    /\ UNCHANGED <<ads, batch_size, i, batch, titles, attempt, sleeping, enriched,
                   results, exc, batchLog, stats0, results0, requests0,
                   batchesDone, retryables, authAt, lastBody, outcomes,
                   delays>>

\* the exhausted batch counted as one failure instead of len(titles)
Exhausted_CountsOne ==
    /\ UNCHANGED <<analyzerVars, parserVars>>
    /\ pc = "attempt" /\ attempt >= Retry
    /\ stats' = Bump(stats, "total_failed", 1)
    /\ enriched' = <<>>
    /\ pc' = "merge"
    /\ UNCHANGED <<ads, batch_size, i, batch, titles, attempt, inflight, sleeping,
                   results, exc, requests, batchLog, stats0, results0, requests0,
                   batchesDone, retryables, authAt, lastBody, outcomes,
                   delays>>

\* range(retry) is used up: stats.total_failed += len(titles); return []
Exhausted ==
    /\ UNCHANGED <<analyzerVars, parserVars>>
    /\ pc = "attempt" /\ attempt >= Retry
    /\ stats' = Bump(stats, "total_failed", Len(titles))
    /\ enriched' = <<>>
    /\ pc' = "merge"
    /\ UNCHANGED <<ads, batch_size, i, batch, titles, attempt, inflight, sleeping,
                   results, exc, requests, batchLog, stats0, results0, requests0,
                   batchesDone, retryables, authAt, lastBody, outcomes,
                   delays>>

Retryable == {"429", "5xx", "timeout"}
Abandoning == {"200-unparseable", "other-status", "fault"}

\* the response is handled but the request stays in flight
Received_StillInFlight(tag) ==
    /\ UNCHANGED <<analyzerVars, parserVars>>
    /\ pc = "await" /\ inflight # <<>>
    /\ inflight' = inflight
    /\ batchLog' = Append(batchLog, tag)
    /\ retryables' = IF tag \in Retryable THEN retryables + 1 ELSE retryables
    /\ authAt' = IF tag = "401" THEN requests ELSE authAt
    /\ outcomes' = IF tag = "429"
                   THEN [outcomes EXCEPT !.rate_limited = @ + 1]
                   ELSE IF tag = "timeout"
                   THEN [outcomes EXCEPT !.timed_out = @ + 1]
                   ELSE IF tag \in Abandoning
                   THEN [outcomes EXCEPT !.abandoned = @ + 1]
                   ELSE outcomes
    /\ UNCHANGED <<ads, batch_size, i, batch, titles, results, requests, stats0,
                   results0, requests0, batchesDone, delays>>

\* what every response has in common: the request is no longer in flight
Received(tag) ==
    /\ UNCHANGED <<analyzerVars, parserVars>>
    /\ pc = "await" /\ inflight # <<>>
    /\ inflight' = Tail(inflight)
    /\ batchLog' = Append(batchLog, tag)
    /\ retryables' = IF tag \in Retryable THEN retryables + 1 ELSE retryables
    /\ authAt' = IF tag = "401" THEN requests ELSE authAt
    /\ outcomes' = IF tag = "429"
                   THEN [outcomes EXCEPT !.rate_limited = @ + 1]
                   ELSE IF tag = "timeout"
                   THEN [outcomes EXCEPT !.timed_out = @ + 1]
                   ELSE IF tag \in Abandoning
                   THEN [outcomes EXCEPT !.abandoned = @ + 1]
                   ELSE outcomes
    /\ UNCHANGED <<ads, batch_size, i, batch, titles, results, requests, stats0,
                   results0, requests0, batchesDone, delays>>

\* HTTP 200, body parsed: total_success += len(processed); return processed
Recv200 ==
    \E p \in ProcessedLists(Len(titles)) :
        /\ Received("200")
        /\ stats' = Bump(stats, "total_success", Len(p))
        /\ enriched' = p
        /\ lastBody' = p
        /\ pc' = "merge"
        /\ UNCHANGED <<attempt, sleeping, exc>>

\* HTTP 200, body not parseable: other_errors += 1; return []
Recv200Unparseable ==
    /\ Received("200-unparseable")
    /\ stats' = Bump(stats, "other_errors", 1)
    /\ enriched' = <<>>
    /\ pc' = "merge"
    /\ UNCHANGED <<lastBody, attempt, sleeping, exc>>

\* HTTP 401 handled like an unexpected status: the batch is dropped and the
\* operation goes on
Recv401_Absorbed ==
    /\ Received("401")
    /\ stats' = Bump(stats, "other_errors", Len(titles))
    /\ enriched' = <<>>
    /\ pc' = "merge"
    /\ UNCHANGED <<lastBody, attempt, sleeping, exc>>

\* HTTP 401: other_errors += len(titles); raise AuthError (re-raised by the
\* except AuthError clause and by enrich_all_ads, which catches nothing)
Recv401 ==
    /\ Received("401")
    /\ stats' = Bump(stats, "other_errors", Len(titles))
    /\ exc' = "AuthError"
    /\ pc' = "raised"
    /\ UNCHANGED <<lastBody, attempt, sleeping, enriched>>

\* HTTP 429: rate_limit_hits += 1; sleep(2 ** (attempt + 1))
Recv429 ==
    /\ Received("429")
    /\ stats' = Bump(stats, "rate_limit_hits", 1)
    /\ sleeping' = Pow2(attempt + 1) * 1000
    /\ pc' = "backoff"
    /\ UNCHANGED <<lastBody, attempt, enriched, exc>>

\* HTTP >= 500: sleep(1)
Recv5xx ==
    /\ Received("5xx")
    /\ sleeping' = ServerErrorWaitMs
    /\ pc' = "backoff"
    /\ UNCHANGED <<lastBody, attempt, stats, enriched, exc>>

\* an unexpected status retried like a server error
RecvOtherStatus_Retried ==
    /\ Received("other-status")
    /\ sleeping' = ServerErrorWaitMs
    /\ pc' = "backoff"
    /\ UNCHANGED <<lastBody, attempt, stats, enriched, exc>>

\* any other status: other_errors += len(titles); return []
RecvOtherStatus ==
    /\ Received("other-status")
    /\ stats' = Bump(stats, "other_errors", Len(titles))
    /\ enriched' = <<>>
    /\ pc' = "merge"
    /\ UNCHANGED <<lastBody, attempt, sleeping, exc>>

\* httpx.TimeoutException: timeout_errors += len(titles); sleep(1) and retry
\* unless this was the last attempt, in which case the loop body just ends
RecvTimeout ==
    /\ Received("timeout")
    /\ stats' = Bump(stats, "timeout_errors", Len(titles))
    /\ IF attempt < Retry - 1
       THEN /\ sleeping' = TimeoutWaitMs
            /\ pc' = "backoff"
            /\ UNCHANGED attempt
       ELSE /\ attempt' = attempt + 1
            /\ pc' = "attempt"
            /\ UNCHANGED sleeping
    /\ UNCHANGED <<lastBody, enriched, exc>>

\* any other exception of client.post: other_errors += len(titles); return []
RecvFault ==
    /\ Received("fault")
    /\ stats' = Bump(stats, "other_errors", Len(titles))
    /\ enriched' = <<>>
    /\ pc' = "merge"
    /\ UNCHANGED <<lastBody, attempt, sleeping, exc>>

\* the sleep is over, the retry is not counted
BackoffDone_Uncounted ==
    /\ UNCHANGED <<analyzerVars, parserVars>>
    /\ pc = "backoff"
    /\ sleeping' = 0
    /\ attempt' = attempt + 1
    /\ pc' = "attempt"
    /\ UNCHANGED <<ads, batch_size, i, batch, titles, inflight, enriched, results,
                   exc, requests, batchLog, stats0, results0, requests0, stats,
                   batchesDone, retryables, authAt, lastBody, outcomes,
                   delays>>

\* the sleep is over: stats.retry_count += 1; continue
BackoffDone ==
    /\ UNCHANGED <<analyzerVars, parserVars>>
    /\ pc = "backoff"
    /\ sleeping' = 0
    /\ stats' = Bump(stats, "retry_count", 1)
    /\ attempt' = attempt + 1
    /\ pc' = "attempt"
    /\ UNCHANGED <<ads, batch_size, i, batch, titles, inflight, enriched, results,
                   exc, requests, batchLog, stats0, results0, requests0,
                   batchesDone, retryables, authAt, lastBody, outcomes,
                   delays>>

\* The first position of enriched that the merge loop cannot handle:
\* batch[j] does not exist (IndexError) or enriched[j] is no mapping (TypeError)
FirstBad(b, e) ==
    LET bad == { j \in 1..Len(e) : j > Len(b) \/ ~e[j].isMap }
    IN  IF bad = {} THEN Len(e) + 1
        ELSE CHOOSE j \in bad : \A k \in bad : j <= k

\* the merge loop stopping one item early
Merged_DropsLast(b, e) ==
    [j \in 1..(FirstBad(b, e) - 2) |-> Merge(b[j], e[j].fields)]

\* for j, enriched_item in enumerate(enriched): results.append({**batch[j], **item})
Merged(b, e) == [j \in 1..(FirstBad(b, e) - 1) |-> Merge(b[j], e[j].fields)]

\* the merge loop, then sleep(rate_limit_delay) after every batch
MergeBatch_AlwaysSleeps ==
    /\ UNCHANGED <<analyzerVars, parserVars>>
    /\ pc = "merge"
    /\ results' = results \o Merged(batch, enriched)
    /\ IF FirstBad(batch, enriched) <= Len(enriched)
       THEN /\ exc' = IF FirstBad(batch, enriched) > Len(batch)
                      THEN "IndexError" ELSE "TypeError"
            /\ pc' = "crashed"
            /\ UNCHANGED <<i, sleeping, batchesDone, delays>>
       ELSE /\ batchesDone' = batchesDone + 1
            /\ UNCHANGED exc
            /\ IF TRUE
               THEN /\ sleeping' = RateLimitDelayMs
                    /\ delays' = delays + 1
                    /\ pc' = "delay"
                    /\ UNCHANGED i
               ELSE /\ i' = i + batch_size
                    /\ pc' = "loop"
                    /\ UNCHANGED <<sleeping, delays>>
    /\ UNCHANGED <<ads, batch_size, batch, titles, attempt, inflight, stats,
                   enriched, requests, batchLog, stats0, results0, requests0,
                   retryables, authAt, lastBody, outcomes>>

\* the merge loop, then `if i + batch_size < len(ads): sleep(rate_limit_delay)`
MergeBatch ==
    /\ UNCHANGED <<analyzerVars, parserVars>>
    /\ pc = "merge"
    /\ results' = results \o Merged(batch, enriched)
    /\ IF FirstBad(batch, enriched) <= Len(enriched)
       THEN /\ exc' = IF FirstBad(batch, enriched) > Len(batch)
                      THEN "IndexError" ELSE "TypeError"
            /\ pc' = "crashed"
            /\ UNCHANGED <<i, sleeping, batchesDone, delays>>
       ELSE /\ batchesDone' = batchesDone + 1
            /\ UNCHANGED exc
            /\ IF i + batch_size < Len(ads)
               THEN /\ sleeping' = RateLimitDelayMs
                    /\ delays' = delays + 1
                    /\ pc' = "delay"
                    /\ UNCHANGED i
               ELSE /\ i' = i + batch_size
                    /\ pc' = "loop"
                    /\ UNCHANGED <<sleeping, delays>>
    /\ UNCHANGED <<ads, batch_size, batch, titles, attempt, inflight, stats,
                   enriched, requests, batchLog, stats0, results0, requests0,
                   retryables, authAt, lastBody, outcomes>>

\* the inter-batch sleep is over: next value of i
DelayDone ==
    /\ UNCHANGED <<analyzerVars, parserVars>>
    /\ pc = "delay"
    /\ sleeping' = 0
    /\ i' = i + batch_size
    /\ pc' = "loop"
    /\ UNCHANGED <<ads, batch_size, batch, titles, attempt, inflight, stats,
                   enriched, results, exc, requests, batchLog, stats0, results0,
                   requests0, batchesDone, retryables, authAt, lastBody, outcomes,
                   delays>>

Receive ==
    \/ Recv200 \/ Recv200Unparseable \/ Recv401 \/ Recv429 \/ Recv5xx
    \/ RecvOtherStatus \/ RecvTimeout \/ RecvFault

Next ==
    \/ BatchStart \/ Return \/ Send \/ Exhausted \/ Receive
    \/ BackoffDone \/ MergeBatch \/ DelayDone

Spec == Init /\ [][Next]_vars


FairSpec == Init /\ [][Next]_vars /\ WF_vars(Next)

\* ------------------------------------------------- properties of enricher
\* enrich_batch has returned for the current batch
BatchReturned == batchLog # <<>> /\ pc \in {"merge", "delay", "loop", "done", "crashed"}

\* the current batch has been merged into results
BatchMerged == batchLog # <<>> /\ pc \in {"delay", "loop", "done"}

AllRetryable == batchLog # <<>> /\ \A j \in 1..Len(batchLog) : batchLog[j] \in Retryable

\* C1: once a request has received HTTP 401 the operation has raised
\* AuthError: that request was the last one sent (no retry of the batch, no
\* request of a later batch), nothing is in flight, and nothing is returned.
C1_AuthErrorAborts ==
    authAt > 0 =>
        /\ pc = "raised" /\ exc = "AuthError"
        /\ requests = authAt
        /\ inflight = <<>>
        /\ batchLog[Len(batchLog)] = "401"
        /\ \A j \in 1..(Len(batchLog) - 1) : batchLog[j] # "401"

\* a 401 on the second attempt of a batch that is not the last one
C1_Witness ==
    /\ pc = "raised" /\ authAt > 0
    /\ attempt = 1 /\ i + batch_size < Len(ads)

\* C2 (as claimed): without an HTTP 401 the operation never raises.
C2_NeverRaisesWithout401 == authAt = 0 => (exc = "none" /\ pc # "crashed")

\* C3: when a batch has been merged, the response's k objects gave exactly k
\* output records; the j-th of them has every field of the j-th object with
\* the object's value and every other field of the j-th record of the batch
\* with the record's value; the records after the k-th gave no output.
C3_PositionalMerge ==
    BatchMerged =>
        /\ Len(results) = results0 + Len(enriched)
        /\ Len(enriched) <= Len(batch)
        /\ \A j \in 1..Len(enriched) :
              LET r == results[results0 + j]
                  o == enriched[j].fields
              IN  /\ \A f \in DOMAIN o : f \in DOMAIN r /\ r[f] = o[f]
                  /\ \A f \in (DOMAIN batch[j]) \ (DOMAIN o) :
                        f \in DOMAIN r /\ r[f] = batch[j][f]
        /\ \A j \in (Len(enriched) + 1)..Len(batch) :
              \A q \in (results0 + 1)..Len(results) :
                  results[q].ad_id # batch[j].ad_id

\* a batch of two records answered with one object: the first record is
\* output with the object's title and its own ad_id, the second is not output
C3_Witness ==
    /\ BatchMerged /\ Len(batch) = 2 /\ Len(enriched) = 1
    /\ Len(results) = results0 + 1
    /\ results[results0 + 1].title = "T"
    /\ results[results0 + 1].ad_id = batch[1].ad_id

\* C4 (as claimed): with 0 < b < n the operation issues ceil(n/b) requests.
C4_Original ==
    (pc = "done" /\ batch_size < Len(ads)) =>
        requests = CeilDiv(Len(ads), batch_size)

\* C4 (amended): every request carries at most b titles, and there is never
\* more than one request per batch beyond those that follow a retryable
\* failure; with 0 < b < n a returning operation has handled ceil(n/b)
\* batches with at least one and at most Retry requests each, hence exactly
\* ceil(n/b) requests when no attempt ended in a retryable failure.
C4_RequestsPerBatch ==
    /\ \A q \in 1..Len(inflight) : Len(inflight[q].data) <= batch_size
    /\ requests <= CeilDiv(Len(ads), batch_size) + retryables
    /\ (pc = "done" /\ batch_size < Len(ads)) =>
          /\ batchesDone = CeilDiv(Len(ads), batch_size)
          /\ requests >= CeilDiv(Len(ads), batch_size)
          /\ requests <= CeilDiv(Len(ads), batch_size) * Retry
          /\ retryables = 0 => requests = CeilDiv(Len(ads), batch_size)

\* three records in batches of two, every attempt answered at once
C4_Witness ==
    /\ pc = "done" /\ Len(ads) = 3 /\ batch_size = 2
    /\ retryables = 0 /\ requests = 2

\* C5: a batch is never sent more than Retry times; a batch whose every
\* attempt ended in 429, >= 500 or a timeout was sent exactly Retry times,
\* returned no object, added no record, and raised total_failed by the number
\* of its titles.
C5_ExhaustedBatch ==
    /\ requests - requests0 <= Retry
    /\ (BatchReturned /\ AllRetryable) =>
          /\ requests = requests0 + Retry
          /\ Len(batchLog) = Retry
          /\ enriched = <<>>
          /\ stats.total_failed = stats0.total_failed + Len(titles)
          /\ (pc # "merge" => Len(results) = results0)

\* a batch of two titles that met a 429, a server error and a timeout
C5_Witness ==
    /\ pc = "delay" /\ batchLog = <<"429", "5xx", "timeout">>
    /\ Len(titles) = 2

\* C6: an attempt that ended in an unparseable 200, an unexpected status or a
\* transport fault was the last request of its batch; the batch returned no
\* object, added no record, other_errors grew, and the operation went on
\* without raising.
C6_AbandonedBatch ==
    \A j \in 1..Len(batchLog) :
        batchLog[j] \in Abandoning =>
            /\ j = Len(batchLog)
            /\ requests = requests0 + j
            /\ inflight = <<>>
            /\ pc \in {"merge", "delay", "loop", "done"}
            /\ exc = "none"
            /\ enriched = <<>>
            /\ stats.other_errors > stats0.other_errors
            /\ (pc # "merge" => Len(results) = results0)

\* a batch abandoned on its first attempt, and the operation on its way to
\* the next batch
C6_Witness ==
    /\ pc = "delay" /\ attempt = 0 /\ Len(batchLog) = 1
    /\ batchLog[1] \in Abandoning

\* C7: a batch answered with 429 and then a parseable 200 counted one
\* rate-limit hit and one retry, was sent twice, and returned the list of
\* the second response.
C7_RateLimitThenSuccess ==
    (BatchReturned /\ batchLog = <<"429", "200">>) =>
        /\ stats.rate_limit_hits = stats0.rate_limit_hits + 1
        /\ stats.retry_count = stats0.retry_count + 1
        /\ requests = requests0 + 2
        /\ enriched = lastBody

C7_Witness ==
    /\ pc = "merge" /\ batchLog = <<"429", "200">> /\ Len(enriched) = 2

\* C8 (as claimed): the operation eventually returns or raises AuthError,
\* and never sends more than ceil(n/b) * Retry requests.
C8_ReturnsOrAuthError ==
    /\ <>(pc \in {"done", "raised"})
    /\ [](requests <= CeilDiv(Len(ads), batch_size) * Retry)

\* C9 (as claimed): on return total_sent is the number of input records.
C9_TotalSentIsInputSize == pc = "done" => stats.total_sent = Len(ads)

\* C20: a request in flight belongs to batch k = i / b, is sent when
\* exactly the k batches before it are finished, and carries the titles of
\* the records k*b .. min((k+1)*b, n) - 1 in input order; on return all
\* ceil(n/b) batches are finished, so every record was in one batch.
C20_BatchTitles ==
    /\ \A q \in 1..Len(inflight) :
          LET k == i \div batch_size
              lo == k * batch_size
              hi == Min((k + 1) * batch_size, Len(ads))
          IN  /\ i = lo /\ lo < hi
              /\ batchesDone = k
              /\ Len(inflight[q].data) = hi - lo
              /\ \A j \in 1..(hi - lo) :
                    inflight[q].data[j].title = ads[lo + j].title
    /\ pc = "done" => /\ batchesDone = CeilDiv(Len(ads), batch_size)
                      /\ i >= Len(ads)

C20_Witness ==
    /\ Len(inflight) = 1 /\ Len(ads) = 3 /\ batch_size = 2
    /\ i = 2 /\ attempt = 1 /\ Len(inflight[1].data) = 1

\* C21: at most one request is in flight; while one is, no wait is running,
\* every earlier attempt of its batch has had its outcome, and exactly the
\* batches before its batch are finished.
C21_OneInFlight ==
    /\ Len(inflight) <= 1
    /\ inflight # <<>> =>
          /\ pc = "await" /\ sleeping = 0
          /\ Len(batchLog) = attempt
          /\ requests - requests0 = attempt + 1
          /\ batchesDone = i \div batch_size

C21_Witness ==
    /\ Len(inflight) = 1 /\ batchesDone = 1
    /\ batchLog = <<"429", "timeout">> /\ attempt = 2

\* C22: right after the k-th attempt of a batch was answered 429 the
\* program waits 2^k seconds (2, 4, 8), after HTTP >= 500 it waits 1 second,
\* after a timeout with k < 3 it waits 1 second; after a timeout of the
\* third attempt it neither waits nor sends again.
C22_BackoffWaits ==
    batchLog # <<>> =>
        LET k == Len(batchLog)
            last == batchLog[k]
            wait == IF last = "429"
                    THEN (IF k = 1 THEN 2000 ELSE IF k = 2 THEN 4000 ELSE 8000)
                    ELSE 1000
            waits == last \in {"429", "5xx"} \/ (last = "timeout" /\ k < 3)
        IN  /\ pc = "backoff" => waits /\ sleeping = wait
            /\ (waits /\ attempt = k - 1) => pc = "backoff"
            /\ (last = "timeout" /\ k = 3) =>
                  /\ pc \notin {"backoff", "await"}
                  /\ sleeping \in {0, 500}
                  /\ requests - requests0 = 3

C22_Witness ==
    /\ pc = "backoff" /\ batchLog = <<"timeout", "5xx", "429">>
    /\ sleeping = 8000

\* C23: a request in flight for batch k comes after exactly k sleeps of
\* rate_limit_delay, one after every earlier batch whatever its outcome;
\* on return there were ceil(n/b) - 1 such sleeps, none after the last batch.
C23_InterBatchDelay ==
    /\ pc = "delay" => /\ sleeping = 500
                       /\ i + batch_size < Len(ads)
                       /\ delays = batchesDone
    /\ inflight # <<>> => delays = i \div batch_size
    /\ pc = "done" =>
          delays = IF Len(ads) = 0 THEN 0
                   ELSE CeilDiv(Len(ads), batch_size) - 1

C23_Witness ==
    /\ pc = "done" /\ Len(ads) = 3 /\ batch_size = 1 /\ delays = 2
    /\ stats.total_failed = 1 /\ stats.other_errors = 1

\* C24 (as claimed): on return rate_limit_hits is the number of attempts
\* answered 429, timeout_errors the number of attempts that timed out and
\* other_errors the number of attempts that made the batch be given up.
C24_CountersCountOccurrences ==
    pc = "done" =>
        /\ stats.rate_limit_hits = outcomes.rate_limited
        /\ stats.timeout_errors = outcomes.timed_out
        /\ stats.other_errors = outcomes.abandoned

\* C25 (as claimed): when enrich_batch has finished, retry_count has grown
\* by the number of requests of the batch beyond the first.
C25_RetryCountIsExtraRequests ==
    (batchLog # <<>> /\ pc \in {"merge", "raised"}) =>
        stats.retry_count - stats0.retry_count = (requests - requests0) - 1

\* C26: the merged records never outnumber the input records, and on return
\* there are exactly total_success of them.
C26_ResultsAreSuccesses ==
    /\ Len(results) <= Len(ads)
    /\ pc = "done" => /\ Len(results) = stats.total_success
                      /\ stats.total_success <= Len(ads)

C26_Witness ==
    /\ pc = "done" /\ Len(ads) = 3 /\ batch_size = 2
    /\ Len(results) = 2 /\ stats.total_success = 2 /\ requests = 2

\* --------------------------------------------------------------- analyzer
\* A table is [columns |-> sequence of names, rows |-> sequence of records].
\* A cell read by pd.read_csv is a text or NaN (an empty cell).
NaN == "<NaN>"

group_cols == <<"group0", "group1", "group2">>
additional_cols == <<"marka", "model">>
\* the literal reason tag of analyzer.py line 88 (Russian for "absent")
REASON == "otsutstvuet"

Range(s) == { s[j] : j \in 1..Len(s) }

\* col.fillna("").astype(str) on one cell
Normalize(cell) == IF cell = NaN THEN "" ELSE cell

\* the three fillna/astype assignments applied to one row
NormalizeRow(r) == [c \in DOMAIN r |->
                      IF c \in Range(group_cols) THEN Normalize(r[c]) ELSE r[c]]

NormalizeTable(df) ==
    [df EXCEPT !.rows = [j \in 1..Len(df.rows) |-> NormalizeRow(df.rows[j])]]

\* row[cols]: the row restricted to the columns cols
Project(r, cols) == [c \in Range(cols) |-> r[c]]

ProjectRows(rows, cols) == [j \in 1..Len(rows) |-> Project(rows[j], cols)]

\* DataFrame.drop_duplicates(): the first occurrence of every row, in order
RECURSIVE DropDuplicates(_)
DropDuplicates(rows) ==
    IF rows = <<>> THEN <<>>
    ELSE LET init == DropDuplicates(SubSeq(rows, 1, Len(rows) - 1))
             last == rows[Len(rows)]
         IN  IF last \in Range(init) THEN init ELSE Append(init, last)

\* df[group_cols].drop_duplicates()
Combinations(df) == DropDuplicates(ProjectRows(df.rows, group_cols))

\* target.merge(existing, how="left", indicator=True) filtered on left_only:
\* existing holds every key once, so every target row appears once
LeftOnly(target, existing) ==
    SelectSeq(target, LAMBDA k : k \notin Range(existing))

\* output_combos.merge(enriched_combos, how="right"): the enriched side kept
InnerMerge_RightSide(target, existing) == existing

\* output_combos.merge(enriched_combos, how="inner")
InnerMerge(target, existing) ==
    SelectSeq(target, LAMBDA k : k \in Range(existing))

\* left.merge(right_rows, on=group_cols, how="left"): for every left row in
\* order, one row per right row with the same key, in the right's order
RECURSIVE MergeLeft(_, _)
MergeLeft(left, right) ==
    IF left = <<>> THEN <<>>
    ELSE LET k == left[1]
             hits == SelectSeq(right, LAMBDA r : Project(r, group_cols) = k)
         IN  hits \o MergeLeft(Tail(left), right)

\* [col for col in [*group_cols, *additional_cols] if col in df.columns]
AvailableCols(columns) ==
    group_cols \o SelectSeq(additional_cols, LAMBDA c : c \in Range(columns))

ResultCols == group_cols \o additional_cols \o <<"reason">>

\* result_df[col] = "" for the additional columns the catalog lacks,
\* result_df["reason"] = REASON, columns reordered
Complete(r) == [c \in Range(ResultCols) |->
                  IF c = "reason" THEN REASON
                  ELSE IF c \in DOMAIN r THEN r[c] ELSE ""]

\* output_df[group_cols].value_counts() looked up for one key
Frequency(rows, k) ==
    Cardinality({ j \in 1..Len(rows) : Project(rows[j], group_cols) = k })

\* merged[merged["_merge"] == "left_only"]: the catalog keys without a match
MissingCombinations(edf, odf) ==
    LeftOnly(Combinations(NormalizeTable(odf)), Combinations(NormalizeTable(edf)))

\* The rows of result_df before the sort
UnsortedMissing(edf, odf) ==
    LET o == NormalizeTable(odf)
        with_info == MergeLeft(MissingCombinations(edf, odf), o.rows)
        picked == DropDuplicates(ProjectRows(with_info, AvailableCols(o.columns)))
    IN  [j \in 1..Len(picked) |-> Complete(picked[j])]

\* The orders a sort may give to n rows whose keys are all equal: one rank
\* per row position, the lower rank first
TieOrders(n) ==
    { f \in [1..n -> 1..n] : \A a, b \in 1..n : a # b => f[a] # f[b] }

\* sort_values("frequency") with the default ascending=True
SortValues_Ascending(rows, cat, tie) ==
    LET n == Len(rows)
        freq == [j \in 1..n |-> Frequency(cat, Project(rows[j], group_cols))]
        Before(a, b) == \/ freq[a] < freq[b]
                        \/ freq[a] = freq[b] /\ tie[a] < tie[b]
        pos == [j \in 1..n |-> 1 + Cardinality({ b \in 1..n : Before(b, j) })]
    IN  [p \in 1..n |-> rows[CHOOSE j \in 1..n : pos[j] = p]]

\* sort_values("frequency", ascending=False): the rows by descending catalog
\* frequency; the sort is a function of its input, and the order it gives
\* to rows of equal frequency is the one of the build (tie)
SortValues(rows, cat, tie) ==
    LET n == Len(rows)
        freq == [j \in 1..n |-> Frequency(cat, Project(rows[j], group_cols))]
        Before(a, b) == \/ freq[a] > freq[b]
                        \/ freq[a] = freq[b] /\ tie[a] < tie[b]
        pos == [j \in 1..n |-> 1 + Cardinality({ b \in 1..n : Before(b, j) })]
    IN  [p \in 1..n |-> rows[CHOOSE j \in 1..n : pos[j] = p]]

\* find_missing_coverage(enriched_path, output_path, output_missing_path):
\* the early return of an empty table that is not saved, or the sorted
\* result, saved with to_csv and returned
FindMissingCoverage ==
    /\ \E rows \in { UnsortedMissing(enriched_df, output_df) } :
         IF Len(MissingCombinations(enriched_df, output_df)) = 0
         THEN /\ missing_ret' = [called |-> TRUE,
                                 columns |-> group_cols \o <<"reason">>,
                                 rows |-> <<>>]
              /\ UNCHANGED missing_file
         ELSE \E out \in { SortValues(rows, NormalizeTable(output_df).rows,
                                      tie_order) } :
                 /\ missing_ret' = [called |-> TRUE, columns |-> ResultCols,
                                    rows |-> out]
                 /\ missing_file' = [exists |-> TRUE, columns |-> ResultCols,
                                     rows |-> out]
    /\ UNCHANGED <<enriched_df, output_df, report, tie_order>>
    /\ UNCHANGED <<enricherVars, parserVars>>

\* round(covered / total, 2): the fraction, not the percentage
CoveragePct_Fraction(covered, total) ==
    IF total > 0 THEN (2 * covered * 100 + total) \div (2 * total) ELSE 0

\* round(covered / total * 100, 2), in hundredths of a percent
CoveragePct(covered, total) ==
    IF total > 0 THEN (2 * covered * 10000 + total) \div (2 * total) ELSE 0

\* generate_coverage_report(enriched_path, output_path)
CoverageReport(edf, odf) ==
    LET enriched_combos == Combinations(NormalizeTable(edf))
        output_combos == Combinations(NormalizeTable(odf))
        total_combos == Len(output_combos)
        covered_combos == Len(InnerMerge(output_combos, enriched_combos))
    IN  [called |-> TRUE,
         total_combinations |-> total_combos,
         covered_combinations |-> covered_combos,
         missing_combinations |-> total_combos - covered_combos,
         coverage_percentage |-> CoveragePct(covered_combos, total_combos)]

GenerateCoverageReport ==
    /\ report' = CoverageReport(enriched_df, output_df)
    /\ UNCHANGED <<enriched_df, output_df, missing_ret, missing_file,
                   tie_order>>
    /\ UNCHANGED <<enricherVars, parserVars>>

\* ---- the tables the analyzer is run on
KeyPool == { <<"A", "B", "C">>, <<"A", "B", NaN>>, <<"D", NaN, NaN>> }
\* the first key is in the catalog under two makes, the others under one
InfoPool(k) == IF k = <<"A", "B", "C">> THEN { <<"x", "1">>, <<"y", "2">> }
               ELSE { <<"x", "1">> }

KeyRow(k) == [group0 |-> k[1], group1 |-> k[2], group2 |-> k[3]]
InfoRow(k, m) == [group0 |-> k[1], group1 |-> k[2], group2 |-> k[3],
                  marka |-> m[1], model |-> m[2]]

SeqsUpTo(S, n) == UNION { [1..m -> S] : m \in 0..n }

KeyRows == { KeyRow(k) : k \in KeyPool }
InfoRows == UNION { { InfoRow(k, m) : m \in InfoPool(k) } : k \in KeyPool }

EnrichedTables ==
    { [columns |-> group_cols, rows |-> r] :
        r \in SeqsUpTo(KeyRows, MaxEnrichedRows) }

CatalogTables ==
    { [columns |-> group_cols \o additional_cols, rows |-> r] :
        r \in SeqsUpTo(InfoRows, MaxCatalogRows) }
    \cup
    { [columns |-> group_cols, rows |-> r] :
        r \in SeqsUpTo(KeyRows, MaxCatalogRows) }

InitAnalyzer ==
    /\ EnricherIdle
    /\ enriched_df \in EnrichedTables
    /\ output_df \in CatalogTables
    /\ missing_ret = [called |-> FALSE]
    /\ missing_file = [exists |-> FALSE]
    /\ report = [called |-> FALSE]
    /\ tie_order \in TieOrders(Len(UnsortedMissing(enriched_df, output_df)))
    /\ ParserIdle

NextAnalyzer == FindMissingCoverage \/ GenerateCoverageReport

SpecAnalyzer == InitAnalyzer /\ [][NextAnalyzer]_vars


\* ------------------------------------------------- properties of analyzer
\* C10 (as claimed): rows of find_missing_coverage plus covered_combinations
\* equals total_combinations.
C10_MissingPlusCovered ==
    (missing_ret.called /\ report.called) =>
        Len(missing_ret.rows) + report.covered_combinations
            = report.total_combinations

\* the distinct taxonomy keys of a table, cells normalised
KeysOf(df) ==
    { Project(NormalizeRow(df.rows[j]), group_cols) : j \in 1..Len(df.rows) }

KeyOfRow(r) == [c \in Range(group_cols) |-> r[c]]

\* the number of catalog rows that carry the key k
CatalogCount(k) ==
    Cardinality({ j \in 1..Len(output_df.rows) :
                    Project(NormalizeRow(output_df.rows[j]), group_cols) = k })

\* C11 (as claimed): the result holds exactly one row for every catalog key
\* that no enriched record has, and no row whose key an enriched record has.
C11_OneRowPerMissingKey ==
    missing_ret.called =>
        /\ \A k \in KeysOf(output_df) \ KeysOf(enriched_df) :
              Cardinality({ j \in 1..Len(missing_ret.rows) :
                              KeyOfRow(missing_ret.rows[j]) = k }) = 1
        /\ \A j \in 1..Len(missing_ret.rows) :
              KeyOfRow(missing_ret.rows[j]) \notin KeysOf(enriched_df)

\* C12 (as claimed): when every catalog key is covered the result has no
\* rows and the columns group0, group1, group2, marka, model, reason.
C12_EmptyResultFullColumns ==
    (missing_ret.called /\ KeysOf(output_df) \subseteq KeysOf(enriched_df)) =>
        /\ missing_ret.rows = <<>>
        /\ missing_ret.columns
             = <<"group0", "group1", "group2", "marka", "model", "reason">>

\* C13 (as claimed): after find_missing_coverage returns, the file at
\* output_missing_path holds exactly the returned rows, an empty result
\* included.
C13_ResultPersisted ==
    missing_ret.called =>
        /\ missing_file.exists
        /\ missing_file.rows = missing_ret.rows

\* C14 (as claimed): tables with the same set of keys give 100 percent.
C14_Original ==
    (report.called /\ KeysOf(enriched_df) = KeysOf(output_df)) =>
        /\ report.coverage_percentage = 10000
        /\ report.missing_combinations = 0
        /\ report.covered_combinations = report.total_combinations

\* C14 (amended): tables with the same non-empty set of keys give
\* coverage_percentage 100 (10000 hundredths), missing_combinations 0 and
\* covered_combinations = total_combinations = the number of keys; when
\* the common set is empty the percentage is 0.
C14_SameKeysFullCoverage ==
    (report.called /\ KeysOf(enriched_df) = KeysOf(output_df)) =>
        /\ report.missing_combinations = 0
        /\ report.covered_combinations = report.total_combinations
        /\ report.total_combinations = Cardinality(KeysOf(output_df))
        /\ report.coverage_percentage
             = IF KeysOf(output_df) = {} THEN 0 ELSE 10000

C14_Witness ==
    /\ report.called /\ KeysOf(enriched_df) = KeysOf(output_df)
    /\ Cardinality(KeysOf(output_df)) = 2 /\ Len(output_df.rows) = 3
    /\ report.coverage_percentage = 10000

\* C15: a catalog with no rows gives total, covered, missing and percentage
\* 0, whatever the enriched table holds.
C15_EmptyCatalog ==
    (report.called /\ Len(output_df.rows) = 0) =>
        /\ report.total_combinations = 0
        /\ report.covered_combinations = 0
        /\ report.missing_combinations = 0
        /\ report.coverage_percentage = 0

C15_Witness ==
    /\ report.called /\ Len(output_df.rows) = 0 /\ Len(enriched_df.rows) = 2
    /\ report.coverage_percentage = 0

\* the table df with one more row
WithRow(df, r) == [df EXCEPT !.rows = Append(@, r)]

\* the rows a table of these columns can be given
RowsFor(df) == IF "marka" \in Range(df.columns) THEN InfoRows ELSE KeyRows

\* the rows that repeat a taxonomy key df already holds
Repeats(df) ==
    { r \in RowsFor(df) : Project(NormalizeRow(r), group_cols) \in KeysOf(df) }

Counts(rep) == <<rep.total_combinations, rep.covered_combinations,
                 rep.missing_combinations>>

\* C16 (as claimed): a further row that repeats a key already present, in
\* the enriched table or in the catalog, changes neither the three counts of
\* generate_coverage_report nor the number of rows of find_missing_coverage.
C16_DuplicatesCollapse ==
    (missing_ret.called /\ report.called) =>
        /\ \A r \in Repeats(enriched_df) :
              /\ Counts(CoverageReport(WithRow(enriched_df, r), output_df))
                   = Counts(report)
              /\ Len(UnsortedMissing(WithRow(enriched_df, r), output_df))
                   = Len(missing_ret.rows)
        /\ \A r \in Repeats(output_df) :
              /\ Counts(CoverageReport(enriched_df, WithRow(output_df, r)))
                   = Counts(report)
              /\ Len(UnsortedMissing(enriched_df, WithRow(output_df, r)))
                   = Len(missing_ret.rows)

\* C17: a row placed before another has a key of at least the catalog
\* frequency of the other's, and a second call on the same tables returns
\* the rows in the same order.
C17_DescendingFrequency ==
    /\ [](missing_ret.called =>
            \A a, b \in 1..Len(missing_ret.rows) :
               a < b => CatalogCount(KeyOfRow(missing_ret.rows[a]))
                          >= CatalogCount(KeyOfRow(missing_ret.rows[b])))
    /\ [][(missing_ret.called /\ missing_ret'.called)
             => missing_ret' = missing_ret]_vars

C17_Witness ==
    /\ missing_ret.called /\ Len(missing_ret.rows) = 2
    /\ CatalogCount(KeyOfRow(missing_ret.rows[1])) = 2
    /\ CatalogCount(KeyOfRow(missing_ret.rows[2])) = 1
    /\ KeyOfRow(missing_ret.rows[2])
         = Project(NormalizeRow(output_df.rows[1]), group_cols)

\* ----------------------------------------------------------------- parser
\* A text is a sequence of characters. A node is an element found (or not)
\* below a listing element; a listing element is an element of the page
\* with its data-item-id attribute and the three marked nodes below it.
NoLink == [found |-> FALSE, has_href |-> FALSE, href |-> ""]
NoNode == [found |-> FALSE, name |-> "", has_href |-> FALSE, href |-> "",
           text |-> <<>>, link |-> NoLink]

Anchor(href, text) ==
    [found |-> TRUE, name |-> "a", has_href |-> TRUE, href |-> href,
     text |-> text, link |-> NoLink]
Heading(text, link) ==
    [found |-> TRUE, name |-> "h3", has_href |-> FALSE, href |-> "",
     text |-> text, link |-> link]
Span(text) ==
    [found |-> TRUE, name |-> "span", has_href |-> FALSE, href |-> "",
     text |-> text, link |-> NoLink]

\* str.strip() of the text of a node
RECURSIVE LStrip(_)
LStrip(t) == IF t # <<>> /\ t[1] = " " THEN LStrip(Tail(t)) ELSE t

RECURSIVE RStrip(_)
RStrip(t) == IF t # <<>> /\ t[Len(t)] = " "
             THEN RStrip(SubSeq(t, 1, Len(t) - 1)) ELSE t

Strip(t) == RStrip(LStrip(t))

\* elem.get_text(strip=True) if elem else ""
GetText(node) == IF node.found THEN Strip(node.text) ELSE <<>>

\* the URL of lines 66-72: the href of a title that is a link, else the
\* href of the first link inside the title
UrlOf(title_elem) ==
    IF title_elem.found /\ title_elem.name = "a"
    THEN (IF title_elem.has_href THEN title_elem.href ELSE "")
    ELSE IF title_elem.found /\ title_elem.link.found
    THEN (IF title_elem.link.has_href THEN title_elem.link.href ELSE "")
    ELSE ""

\* the body of the loop over items: no record for an empty identifier or an
\* empty title, else one Ad
ParseItem_NoTitleCheck(item) ==
    LET ad_id == IF item.has_item_id THEN item.item_id ELSE ""
    IN  IF ad_id = "" THEN <<>>
        ELSE << [ad_id |-> ad_id, title |-> GetText(item.title),
                 url |-> UrlOf(item.title), region |-> GetText(item.location),
                 price |-> GetText(item.price)] >>

ParseItem(item) ==
    LET ad_id == IF item.has_item_id THEN item.item_id ELSE ""
        title == GetText(item.title)
    IN  IF ad_id = "" THEN <<>>
        ELSE IF title = <<>> THEN <<>>
        ELSE << [ad_id |-> ad_id, title |-> title,
                 url |-> UrlOf(item.title), region |-> GetText(item.location),
                 price |-> GetText(item.price)] >>

RECURSIVE ParseItems(_)
ParseItems(items) ==
    IF items = <<>> THEN <<>>
    ELSE ParseItem(items[1]) \o ParseItems(Tail(items))

\* soup.find_all(attrs={"data-item-id": True}): the elements that have the
\* attribute, whatever its value, in document order
FindAllItems(elems) == SelectSeq(elems, LAMBDA e : e.has_item_id)

\* Path(file_path).read_text(encoding="utf-8"): the exception it raises
ReadText(file) ==
    CASE file.kind = "missing" -> "FileNotFoundError"
      [] file.kind = "denied" -> "PermissionError"
      [] file.kind = "undecodable" -> "UnicodeDecodeError"
      [] OTHER -> "none"

\* parse_html_file(file_path): the exception raised, or the ads returned
ParseHtmlFile(file) ==
    IF ReadText(file) # "none"
    THEN [raises |-> ReadText(file), ads |-> <<>>]
    ELSE [raises |-> "none", ads |-> ParseItems(FindAllItems(file.elems))]

\* the exceptions caught by "except (OSError, FileNotFoundError)"
IsOSError(e) == e \in {"OSError", "FileNotFoundError", "PermissionError"}

\* ---- the pages the parser is run on
Element(has_id, id, title, location, price) ==
    [has_item_id |-> has_id, item_id |-> id, title |-> title,
     location |-> location, price |-> price]

\* a listing whose title is a link
LinkTitled == Element(TRUE, "101", Anchor("/item/101", <<"A", "d">>),
                      Span(<<"M", "s", "k">>), Span(<<"5">>))
\* a listing whose title holds a link and has blanks around its text
NestedLink == Element(TRUE, "102",
                      Heading(<<" ", "B", " ">>,
                              [found |-> TRUE, has_href |-> TRUE,
                               href |-> "/item/102"]),
                      NoNode, NoNode)
\* an element without the data-item-id attribute
WithoutId == Element(FALSE, "", Anchor("/item/103", <<"C">>), NoNode, NoNode)
\* an element whose data-item-id is empty
EmptyId == Element(TRUE, "", Anchor("/item/104", <<"D">>), NoNode, NoNode)
\* a listing without a title element
WithoutTitle == Element(TRUE, "105", NoNode, Span(<<"S", "p", "b">>), NoNode)
\* a listing whose title is blank
BlankTitle == Element(TRUE, "106", Heading(<<" ">>, NoLink), NoNode, NoNode)

ElemPool == {LinkTitled, NestedLink, WithoutId, EmptyId, WithoutTitle,
             BlankTitle}

Html(elems) == [kind |-> "html", elems |-> elems]
Missing == [kind |-> "missing", elems |-> <<>>]
Denied == [kind |-> "denied", elems |-> <<>>]
Undecodable == [kind |-> "undecodable", elems |-> <<>>]

\* the files one call of parse_html_file is given
Files == { Html(e) : e \in SeqsUpTo(ElemPool, MaxElems) }
           \cup {Missing, Denied, Undecodable}

\* the files the lists of parse_html_files are made of
ListedFiles == { Html(<<LinkTitled, NestedLink>>),
                 Html(<<WithoutId, NestedLink, BlankTitle>>),
                 Missing, Denied, Undecodable }

\* parse_html_file or parse_html_files is entered
InitParser ==
    /\ EnricherIdle
    /\ AnalyzerIdle
    /\ \/ /\ parser_pc = "file"
          /\ \E f \in Files : file_paths = <<f>>
       \/ /\ parser_pc = "loop"
          /\ file_paths \in SeqsUpTo(ListedFiles, MaxFiles)
    /\ file_index = 0 /\ all_ads = <<>> /\ parser_exc = "none"

\* parse_html_file returns its ads
ParseHtmlFileReturns ==
    /\ parser_pc = "file"
    /\ ParseHtmlFile(file_paths[1]).raises = "none"
    /\ all_ads' = ParseHtmlFile(file_paths[1]).ads
    /\ parser_pc' = "returned"
    /\ UNCHANGED <<file_paths, file_index, parser_exc>>
    /\ UNCHANGED <<enricherVars, analyzerVars>>

\* parse_html_file raises what read_text raised
ParseHtmlFileRaises ==
    /\ parser_pc = "file"
    /\ ParseHtmlFile(file_paths[1]).raises # "none"
    /\ parser_exc' = ParseHtmlFile(file_paths[1]).raises
    /\ parser_pc' = "file_raised"
    /\ UNCHANGED <<file_paths, file_index, all_ads>>
    /\ UNCHANGED <<enricherVars, analyzerVars>>

\* for file_path in file_paths: ads = parse_html_file(...); all_ads.extend
ExtendAds ==
    /\ parser_pc = "loop" /\ file_index < Len(file_paths)
    /\ ParseHtmlFile(file_paths[file_index + 1]).raises = "none"
    /\ all_ads' = all_ads \o ParseHtmlFile(file_paths[file_index + 1]).ads
    /\ file_index' = file_index + 1
    /\ UNCHANGED <<file_paths, parser_pc, parser_exc>>
    /\ UNCHANGED <<enricherVars, analyzerVars>>

\* except (OSError, FileNotFoundError): continue
SkipFile ==
    /\ parser_pc = "loop" /\ file_index < Len(file_paths)
    /\ IsOSError(ParseHtmlFile(file_paths[file_index + 1]).raises)
    /\ file_index' = file_index + 1
    /\ UNCHANGED <<file_paths, parser_pc, all_ads, parser_exc>>
    /\ UNCHANGED <<enricherVars, analyzerVars>>

\* an exception the except clause does not name leaves parse_html_files
Propagate ==
    /\ parser_pc = "loop" /\ file_index < Len(file_paths)
    /\ ParseHtmlFile(file_paths[file_index + 1]).raises # "none"
    /\ ~IsOSError(ParseHtmlFile(file_paths[file_index + 1]).raises)
    /\ parser_exc' = ParseHtmlFile(file_paths[file_index + 1]).raises
    /\ parser_pc' = "raised"
    /\ UNCHANGED <<file_paths, file_index, all_ads>>
    /\ UNCHANGED <<enricherVars, analyzerVars>>

\* return all_ads
ReturnAllAds ==
    /\ parser_pc = "loop" /\ file_index = Len(file_paths)
    /\ parser_pc' = "done"
    /\ UNCHANGED <<file_paths, file_index, all_ads, parser_exc>>
    /\ UNCHANGED <<enricherVars, analyzerVars>>

NextParser ==
    \/ ParseHtmlFileReturns \/ ParseHtmlFileRaises
    \/ ExtendAds \/ SkipFile \/ Propagate \/ ReturnAllAds

SpecParser == InitParser /\ [][NextParser]_vars

\* ---------------------------------------------------- properties of parser
\* a node found whose text has a character that is not a blank
HasVisibleText(node) ==
    node.found /\ \E j \in 1..Len(node.text) : node.text[j] # " "

Qualifies(e) ==
    e.has_item_id /\ e.item_id # "" /\ HasVisibleText(e.title)

\* C18: parse_html_file returns one record for every element that has a
\* non-empty data-item-id and a non-empty title text, in document order,
\* and none for any other element.
C18_RecordIffIdAndTitle ==
    parser_pc = "returned" =>
        LET kept == SelectSeq(file_paths[1].elems, Qualifies)
        IN  /\ Len(all_ads) = Len(kept)
            /\ \A j \in 1..Len(kept) :
                  /\ all_ads[j].ad_id = kept[j].item_id
                  /\ all_ads[j].title # <<>>

C18_Witness ==
    /\ parser_pc = "returned" /\ Len(file_paths[1].elems) = 2
    /\ file_paths[1].elems[1] = BlankTitle
    /\ file_paths[1].elems[2] = NestedLink
    /\ Len(all_ads) = 1 /\ all_ads[1].title = <<"B">>

\* the records of the files that can be read, in list order
RECURSIVE ReadableAds(_)
ReadableAds(files) ==
    IF files = <<>> THEN <<>>
    ELSE (IF files[1].kind = "html"
          THEN ParseItems(FindAllItems(files[1].elems)) ELSE <<>>)
         \o ReadableAds(Tail(files))

\* C19 (as claimed): parse_html_files raises nothing whatever keeps a file
\* from being read, and returns the records of the readable files in list
\* order.
C19_UnreadableSkipped ==
    parser_pc \in {"loop", "done", "raised"} =>
        /\ parser_pc # "raised" /\ parser_exc = "none"
        /\ parser_pc = "done" => all_ads = ReadableAds(file_paths)

====
